---- MODULE Spec2Model ----
(***************************************************************************)
(* The Rope2D / Rope3D operators of CablesCustomOps: a Verlet rope pinned  *)
(* at both ends, with a sleep controller, driven by the host's port-change *)
(* callbacks and its Update trigger.                                       *)
(*                                                                         *)
(* Numbers.  The source computes in IEEE doubles; the model computes in    *)
(* fixed point.  One position unit is INPUT_EPS (1e-5), so VEL_EPS (1e-3)  *)
(* is 100 units.  Time is in milliseconds, gravity in tenths of a unit of  *)
(* the Gravity port, damping in hundredths.  Products are divided with     *)
(* truncation toward zero, Math.hypot is the integer square root.          *)
(*                                                                         *)
(* Clock.  performance.now() and lastTime are read only as their          *)
(* difference; each Update frame draws that elapsed time from              *)
(* ElapsedValues.  The model's world is the source's defaults scaled down  *)
(* so that every product stays inside TLC's integers.                      *)
(*                                                                         *)
(* Variants.  The two source files differ only in the Z axis: the 2D file  *)
(* has no Top Z / Bottom Z port and publishes 0 for z.  `variant` selects  *)
(* the file; in the 2D variant every z stays 0.                            *)
(***************************************************************************)
EXTENDS Integers, Sequences, FiniteSets, TLC

VARIABLES
    variant,        \* "2D" (src/unnamed/part_000) or "3D" (Ops.Local.Custom.Rope3D.js)
    inTop,          \* ports Top X / Top Y / Top Z
    inBottom,       \* ports Bottom X / Bottom Y / Bottom Z
    inSegments,     \* port Segments
    inLength,       \* port Rope Length
    inGravity,      \* port Gravity (tenths)
    inIter,         \* port Constraint Iterations
    inDamping,      \* port Damping (hundredths)
    positions,      \* let positions
    prevPositions,  \* let prevPositions
    isSleeping,     \* let isSleeping
    sleepCounter,   \* let sleepCounter
    lastTop,        \* lastTopX/Y/Z: <<>> while null, <<v>> once set
    lastBottom,     \* lastBottomX/Y/Z: <<>> while null, <<v>> once set
    outPoints,      \* what outPoints.set received last, <<>> before the first frame
    lastFrame,      \* observation of the last Update frame (what it computed)
    runStill,       \* history: consecutive Update frames that were awake and still
    runStillSeed,   \* history: the same, counted since the last initRope
    lastEvent,      \* history: name of the last handler that ran
    frames,         \* number of Update frames so far (bounded)
    changes         \* number of port changes and long pauses so far (bounded)

vars == <<variant, inTop, inBottom, inSegments, inLength, inGravity, inIter,
          inDamping, positions, prevPositions, isSleeping, sleepCounter,
          lastTop, lastBottom, outPoints, lastFrame, runStill, runStillSeed,
          lastEvent, frames, changes>>

ropeVars == <<positions, prevPositions, isSleeping, sleepCounter>>
portVars == <<inTop, inBottom, inSegments, inLength, inGravity, inIter, inDamping>>

-----------------------------------------------------------------------------
\* Program constants (scaled to the model's units)

SLEEP_FRAMES == 6
VEL_EPS == 100
INPUT_EPS == 1
DT_MAX == 50

\* Bounds of the exploration
MaxFrames == 9
MaxChanges == 2
MaxSegments == 3

\* lastTopX = null: the cache of last-seen inputs before the first frame
NULL == <<>>

\* The dt recorded for a frame that did not call step (<<dt>> when it did)
NoStep == <<>>

\* now - lastTime in ms: the host's regular frame interval, and a long pause
\* (a tab switch) that the handler clamps to DT_MAX
ElapsedValues == {16, 60}

TopXValues == {0, 300}
TopYValues == {1500, 1800}
TopZValues == {0, 300}
BottomXValues == {0, 1, 2}
BottomYValues == {-900, -500}
BottomZValues == {0, 300}
SegmentsValues == 0..MaxSegments
LengthValues == {2400, 1200}
GravityValues == {-98, 0}
IterValues == {1, 4}
DampingValues == {94, 100}

-----------------------------------------------------------------------------
\* Arithmetic

Abs(a) == IF a < 0 THEN -a ELSE a

Max2(a, b) == IF a > b THEN a ELSE b

Max3(a, b, c) == Max2(a, Max2(b, c))

\* a * b / c, truncated toward zero (c > 0)
MulDiv(a, b, c) == IF a * b >= 0 THEN (a * b) \div c ELSE -((-(a * b)) \div c)

RECURSIVE SqrtSearch(_, _, _)
SqrtSearch(s, lo, hi) ==
    IF lo >= hi THEN lo
    ELSE LET mid == (lo + hi + 1) \div 2
         IN  IF mid * mid <= s THEN SqrtSearch(s, mid, hi)
                               ELSE SqrtSearch(s, lo, mid - 1)

\* Math.hypot(dx, dy, dz)
Hypot(dx, dy, dz) ==
    SqrtSearch(dx * dx + dy * dy + dz * dz, 0, Abs(dx) + Abs(dy) + Abs(dz))

Vec(x, y, z) == [x |-> x, y |-> y, z |-> z]

-----------------------------------------------------------------------------
\* initRope(topX, topY, topZ), reading Segments and Rope Length

\* for (let i = 0; i <= n; i++) positions.push({ x, y, z })
RECURSIVE SeedLine(_, _, _, _, _, _, _)
SeedLine(line, i, last, topX, topY, topZ, segLen) ==
    IF i > last THEN line
    ELSE SeedLine(Append(line, Vec(topX, topY - segLen * i, topZ)),
                  i + 1, last, topX, topY, topZ, segLen)

\* Variant of initRope whose loop stops one point early (i < n)
InitRopeShort(topX, topY, topZ, segments, length) ==
    LET n      == Max2(1, segments)
        segLen == length \div n
        line   == SeedLine(<<>>, 0, n - 1, topX, topY, topZ, segLen)
    IN  [positions     |-> line,
         prevPositions |-> line,
         isSleeping    |-> FALSE,
         sleepCounter  |-> 0]

\* Variant of initRope that forgets to reset sleepCounter
InitRopeKeepCounter(topX, topY, topZ, segments, length) ==
    LET n      == Max2(1, segments)
        segLen == length \div n
        line   == SeedLine(<<>>, 0, n, topX, topY, topZ, segLen)
    IN  [positions     |-> line,
         prevPositions |-> line,
         isSleeping    |-> FALSE,
         sleepCounter  |-> sleepCounter]

InitRope(topX, topY, topZ, segments, length) ==
    LET n      == Max2(1, segments)
        segLen == length \div n
        line   == SeedLine(<<>>, 0, n, topX, topY, topZ, segLen)
    IN  [positions     |-> line,
         prevPositions |-> line,
         isSleeping    |-> FALSE,
         sleepCounter  |-> 0]

-----------------------------------------------------------------------------
\* step(dt, topX, topY, topZ, bottomX, bottomY, bottomZ)

\* (p - prev) * damping
Velocity(p, prev, damping) == MulDiv(p - prev, damping, 100)

\* g * dt * dt
GravityShift(gravity, dt) == MulDiv(gravity, dt * dt, 100)

\* Verlet integration of the free point at code index i (1 <= i < n)
IntegratePoint(p, prev, dt, gravity, damping) ==
    LET vx == Velocity(p.x, prev.x, damping)
        vy == Velocity(p.y, prev.y, damping)
        vz == Velocity(p.z, prev.z, damping)
    IN  [p    |-> Vec(p.x + vx, p.y + vy + GravityShift(gravity, dt), p.z + vz),
         prev |-> p,
         vMag |-> Max3(Abs(vx), Abs(vy), Abs(vz))]

\* d * diff, with diff = (dist - restLen) / dist
Correction(d, dist, restLen) == MulDiv(d, dist - restLen, dist)

\* d * half, with half = diff * 0.5
HalfCorrection(d, dist, restLen) == MulDiv(d, dist - restLen, 2 * dist)

\* One segment of one constraint pass: code index i, points i and i + 1
RelaxSegment(pos, i, n, restLen) ==
    LET p1   == pos[i + 1]
        p2   == pos[i + 2]
        dx   == p2.x - p1.x
        dy   == p2.y - p1.y
        dz   == p2.z - p1.z
        dist == Hypot(dx, dy, dz)
    IN  IF dist = 0 THEN pos
        ELSE IF i = 0 THEN
            [pos EXCEPT ![i + 2] = Vec(p2.x - Correction(dx, dist, restLen),
                                       p2.y - Correction(dy, dist, restLen),
                                       p2.z - Correction(dz, dist, restLen))]
        ELSE IF i = n - 1 THEN
            [pos EXCEPT ![i + 1] = Vec(p1.x + Correction(dx, dist, restLen),
                                       p1.y + Correction(dy, dist, restLen),
                                       p1.z + Correction(dz, dist, restLen))]
        ELSE
            [pos EXCEPT ![i + 1] = Vec(p1.x + HalfCorrection(dx, dist, restLen),
                                       p1.y + HalfCorrection(dy, dist, restLen),
                                       p1.z + HalfCorrection(dz, dist, restLen)),
                        ![i + 2] = Vec(p2.x - HalfCorrection(dx, dist, restLen),
                                       p2.y - HalfCorrection(dy, dist, restLen),
                                       p2.z - HalfCorrection(dz, dist, restLen))]

\* for (let i = 0; i < n; i++): in place, each segment sees the points as the
\* segments before it left them
RECURSIVE SolvePass(_, _, _, _)
SolvePass(pos, i, n, restLen) ==
    IF i >= n THEN pos
    ELSE CHOOSE done \in {SolvePass(relaxed, i + 1, n, restLen) :
                             relaxed \in {RelaxSegment(pos, i, n, restLen)}} : TRUE

\* for (let iter = 0; iter < iters; iter++)
RECURSIVE SolveConstraints(_, _, _, _, _)
SolveConstraints(pos, iter, iters, n, restLen) ==
    IF iter >= iters THEN pos
    ELSE CHOOSE done \in {SolveConstraints(passed, iter + 1, iters, n, restLen) :
                             passed \in {SolvePass(pos, 0, n, restLen)}} : TRUE

\* for (let i = 1; i < n; i++): in place on positions and prevPositions,
\* keeping the running maxVel
RECURSIVE Integrate(_, _, _, _, _, _)
Integrate(acc, i, n, dt, gravity, damping) ==
    IF i >= n THEN acc
    ELSE CHOOSE done \in
            {Integrate([positions     |-> [acc.positions EXCEPT ![i + 1] = m.p],
                        prevPositions |-> [acc.prevPositions EXCEPT ![i + 1] = m.prev],
                        maxVel        |-> Max2(acc.maxVel, m.vMag)],
                       i + 1, n, dt, gravity, damping) :
             m \in {IntegratePoint(acc.positions[i + 1], acc.prevPositions[i + 1],
                                   dt, gravity, damping)}} : TRUE

Step(pos, prev, dt, top, bottom, gravity, length, iter, damping) ==
    LET n == Len(pos) - 1
    IN  IF n < 1 THEN [positions |-> pos, prevPositions |-> prev, maxVel |-> 0]
        ELSE
        LET restLen == length \div n
            iters   == Max2(1, iter)
            \* bottom.x = bottomX ...; prevPositions[n].x = bottom.x ...
            endSet  == [positions     |-> [pos EXCEPT ![n + 1] = bottom],
                        prevPositions |-> [prev EXCEPT ![n + 1] = bottom],
                        maxVel        |-> 0]
            moved   == Integrate(endSet, 1, n, dt, gravity, damping)
            \* positions[0].x = topX ...; prevPositions[0].x = positions[0].x ...
            pinned  == [moved.positions EXCEPT ![1] = top]
            prev2   == [moved.prevPositions EXCEPT ![1] = top]
        IN  [positions     |-> SolveConstraints(pinned, 0, iters, n, restLen),
             prevPositions |-> prev2,
             maxVel        |-> moved.maxVel]

-----------------------------------------------------------------------------
\* inUpdate.onTriggered

\* if (dt > 0.05) dt = 0.05
ClampDt(dt) == IF dt > DT_MAX THEN DT_MAX ELSE dt

\* const inputsMoved = lastTopX === null || Math.abs(topX - lastTopX) > INPUT_EPS || ...
InputsMoved(top, bottom, lastT, lastB) ==
    \/ lastT = NULL
    \/ Abs(top.x - lastT[1].x) > INPUT_EPS
    \/ Abs(top.y - lastT[1].y) > INPUT_EPS
    \/ Abs(top.z - lastT[1].z) > INPUT_EPS
    \/ Abs(bottom.x - lastB[1].x) > INPUT_EPS
    \/ Abs(bottom.y - lastB[1].y) > INPUT_EPS
    \/ Abs(bottom.z - lastB[1].z) > INPUT_EPS

\* if (!positions.length) initRope(topX, topY, topZ)
EnsureRope(rope, top, segments, length) ==
    IF Len(rope.positions) = 0
    THEN InitRope(top.x, top.y, top.z, segments, length)
    ELSE rope

\* Variant of the wake-up branch that ignores inputsMoved
WakeUpAlways(rope, inputsMoved) ==
    IF rope.isSleeping
    THEN [rope EXCEPT !.isSleeping    = FALSE,
                      !.sleepCounter  = 0,
                      !.prevPositions = rope.positions]
    ELSE rope

\* if (isSleeping && inputsMoved) { ... }: the rope after the wake-up branch
WakeUp(rope, inputsMoved) ==
    IF rope.isSleeping /\ inputsMoved
    THEN [rope EXCEPT !.isSleeping    = FALSE,
                      !.sleepCounter  = 0,
                      !.prevPositions = rope.positions]
    ELSE rope

\* Variant of the wake-up branch without its `dt = 0`
WakeDtKeep(rope, inputsMoved, dt) == dt

\* dt after the wake-up branch
WakeDt(rope, inputsMoved, dt) ==
    IF rope.isSleeping /\ inputsMoved THEN 0 ELSE dt

\* Variant of the sleep policy comparing with > instead of >=
SleepPolicyLate(rope, stepped, inputsMoved) ==
    IF ~inputsMoved /\ stepped.maxVel < VEL_EPS
    THEN IF rope.sleepCounter + 1 > SLEEP_FRAMES
         THEN [positions     |-> stepped.positions,
               prevPositions |-> stepped.positions,
               isSleeping    |-> TRUE,
               sleepCounter  |-> rope.sleepCounter + 1]
         ELSE [positions     |-> stepped.positions,
               prevPositions |-> stepped.prevPositions,
               isSleeping    |-> FALSE,
               sleepCounter  |-> rope.sleepCounter + 1]
    ELSE [positions     |-> stepped.positions,
          prevPositions |-> stepped.prevPositions,
          isSleeping    |-> FALSE,
          sleepCounter  |-> 0]

\* if (!inputsMoved && maxVel < VEL_EPS) { sleepCounter++; ... } else sleepCounter = 0
SleepPolicy(rope, stepped, inputsMoved) ==
    IF ~inputsMoved /\ stepped.maxVel < VEL_EPS
    THEN IF rope.sleepCounter + 1 >= SLEEP_FRAMES
         THEN [positions     |-> stepped.positions,
               prevPositions |-> stepped.positions,
               isSleeping    |-> TRUE,
               sleepCounter  |-> rope.sleepCounter + 1]
         ELSE [positions     |-> stepped.positions,
               prevPositions |-> stepped.prevPositions,
               isSleeping    |-> FALSE,
               sleepCounter  |-> rope.sleepCounter + 1]
    ELSE [positions     |-> stepped.positions,
          prevPositions |-> stepped.prevPositions,
          isSleeping    |-> FALSE,
          sleepCounter  |-> 0]

\* flat.push(p.x, p.y, p.z)   (the 2D file pushes p.x, p.y, 0; its z is always 0)
RECURSIVE FlattenFrom(_, _)
FlattenFrom(pos, i) ==
    IF i > Len(pos) THEN <<>>
    ELSE <<pos[i].x, pos[i].y, pos[i].z>> \o FlattenFrom(pos, i + 1)

Flatten(pos) == FlattenFrom(pos, 1)

Rope == [positions     |-> positions,
         prevPositions |-> prevPositions,
         isSleeping    |-> isSleeping,
         sleepCounter  |-> sleepCounter]

\* The whole frame handler, for an elapsed time of `elapsed` ms since lastTime
Frame(elapsed) ==
    LET dt0     == ClampDt(elapsed)
        moved   == InputsMoved(inTop, inBottom, lastTop, lastBottom)
        seeded  == EnsureRope(Rope, inTop, inSegments, inLength)
        woken   == WakeUp(seeded, moved)
        dt      == WakeDt(seeded, moved, dt0)
        stepped == Step(woken.positions, woken.prevPositions, dt, inTop, inBottom,
                        inGravity, inLength, inIter, inDamping)
        after   == IF ~woken.isSleeping THEN SleepPolicy(woken, stepped, moved)
                   ELSE woken
    IN  [rope        |-> after,
         inputsMoved |-> moved,
         wasSleeping |-> seeded.isSleeping,
         start       |-> woken,
         stepCalled  |-> ~woken.isSleeping,
         dt          |-> IF ~woken.isSleeping THEN <<dt>> ELSE NoStep,
         maxVel      |-> IF ~woken.isSleeping THEN stepped.maxVel ELSE 0,
         out         |-> Flatten(after.positions)]

SetRope(r) ==
    /\ positions'     = r.positions
    /\ prevPositions' = r.prevPositions
    /\ isSleeping'    = r.isSleeping
    /\ sleepCounter'  = r.sleepCounter

Update(elapsed) ==
    /\ frames < MaxFrames
    /\ elapsed > DT_MAX => changes < MaxChanges
    /\ \E f \in {Frame(elapsed)} :
       LET still == f.stepCalled /\ ~f.inputsMoved /\ f.maxVel < VEL_EPS
       IN  /\ SetRope(f.rope)
           /\ lastTop'    = <<inTop>>
           /\ lastBottom' = <<inBottom>>
           /\ outPoints'  = f.out
           /\ lastFrame'  = [inputsMoved |-> f.inputsMoved,
                             wasSleeping |-> f.wasSleeping,
                             start       |-> f.start.positions,
                             startPrev   |-> f.start.prevPositions,
                             stepCalled  |-> f.stepCalled,
                             dt          |-> f.dt,
                             maxVel      |-> f.maxVel,
                             elapsed     |-> elapsed,
                             gravity     |-> inGravity,
                             iter        |-> inIter,
                             damping     |-> inDamping]
           /\ runStill'     = IF still THEN runStill + 1 ELSE 0
           /\ runStillSeed' = IF still THEN runStillSeed + 1 ELSE 0
    /\ lastEvent' = [op |-> "Update", wasSleeping |-> isSleeping,
                     wasCounter |-> sleepCounter]
    /\ frames'  = frames + 1
    /\ changes' = IF elapsed > DT_MAX THEN changes + 1 ELSE changes
    /\ UNCHANGED <<variant, portVars>>

-----------------------------------------------------------------------------
\* Port-change callbacks.  A port's onChange runs when the host sets the port
\* to a value different from its current one.

\* inSegments.onChange
InSegmentsOnChange(top, segments, length) ==
    InitRope(top.x, top.y, top.z, segments, length)

\* inLength.onChange
InLengthOnChange(top, segments, length) ==
    InitRope(top.x, top.y, top.z, segments, length)

\* inTopX.onChange / inTopY.onChange / inTopZ.onChange of the 3D file
InTopOnChange3D(top, segments, length) ==
    InitRope(top.x, top.y, top.z, segments, length)

\* Variant of the 2D file's anchor callbacks that leaves the chain alone
InTopOnChange2DNoSeed(top, segments, length) == Rope

\* inTopX.onChange / inTopY.onChange of the 2D file
InTopOnChange2D(top, segments, length) ==
    InitRope(top.x, top.y, 0, segments, length)

InTopOnChange(top, segments, length) ==
    IF variant = "2D" THEN InTopOnChange2D(top, segments, length)
                      ELSE InTopOnChange3D(top, segments, length)

Changed(name) ==
    /\ changes < MaxChanges
    /\ changes' = changes + 1
    /\ lastEvent' = [op |-> name, wasSleeping |-> isSleeping,
                     wasCounter |-> sleepCounter]
    /\ UNCHANGED <<variant, lastTop, lastBottom, outPoints, lastFrame, runStill,
                   frames>>

\* An initRope call ends the run of still frames counted since the last seeding
Seeded == runStillSeed' = 0

SetSegments(v) ==
    /\ v # inSegments
    /\ Changed("Segments")
    /\ inSegments' = v
    /\ SetRope(InSegmentsOnChange(inTop, v, inLength))
    /\ Seeded
    /\ UNCHANGED <<inTop, inBottom, inLength, inGravity, inIter, inDamping>>

SetLength(v) ==
    /\ v # inLength
    /\ Changed("Length")
    /\ inLength' = v
    /\ SetRope(InLengthOnChange(inTop, inSegments, v))
    /\ Seeded
    /\ UNCHANGED <<inTop, inBottom, inSegments, inGravity, inIter, inDamping>>

SetTop(name, top) ==
    /\ top # inTop
    /\ Changed(name)
    /\ inTop' = top
    /\ SetRope(InTopOnChange(top, inSegments, inLength))
    /\ Seeded
    /\ UNCHANGED <<inBottom, inSegments, inLength, inGravity, inIter, inDamping>>

SetTopX(v) == SetTop("TopX", [inTop EXCEPT !.x = v])

SetTopY(v) == SetTop("TopY", [inTop EXCEPT !.y = v])

SetTopZ(v) == variant = "3D" /\ SetTop("TopZ", [inTop EXCEPT !.z = v])

\* Bottom X / Bottom Y / Bottom Z have no onChange: only the port changes
SetBottom(name, bottom) ==
    /\ bottom # inBottom
    /\ Changed(name)
    /\ inBottom' = bottom
    /\ UNCHANGED <<ropeVars, runStillSeed>>
    /\ UNCHANGED <<inTop, inSegments, inLength, inGravity, inIter, inDamping>>

SetBottomX(v) == SetBottom("BottomX", [inBottom EXCEPT !.x = v])

SetBottomY(v) == SetBottom("BottomY", [inBottom EXCEPT !.y = v])

SetBottomZ(v) == variant = "3D" /\ SetBottom("BottomZ", [inBottom EXCEPT !.z = v])

\* Variant in which the Gravity port has an onChange that calls initRope
SetGravityReseeds(v) ==
    /\ v # inGravity
    /\ Changed("Gravity")
    /\ inGravity' = v
    /\ SetRope(InitRope(inTop.x, inTop.y, inTop.z, inSegments, inLength))
    /\ Seeded
    /\ UNCHANGED <<inTop, inBottom, inSegments, inLength, inIter, inDamping>>

\* Gravity, Constraint Iterations and Damping have no onChange either
SetGravity(v) ==
    /\ v # inGravity
    /\ Changed("Gravity")
    /\ inGravity' = v
    /\ UNCHANGED <<ropeVars, runStillSeed>>
    /\ UNCHANGED <<inTop, inBottom, inSegments, inLength, inIter, inDamping>>

SetIter(v) ==
    /\ v # inIter
    /\ Changed("Iter")
    /\ inIter' = v
    /\ UNCHANGED <<ropeVars, runStillSeed>>
    /\ UNCHANGED <<inTop, inBottom, inSegments, inLength, inGravity, inDamping>>

SetDamping(v) ==
    /\ v # inDamping
    /\ Changed("Damping")
    /\ inDamping' = v
    /\ UNCHANGED <<ropeVars, runStillSeed>>
    /\ UNCHANGED <<inTop, inBottom, inSegments, inLength, inGravity, inIter>>

-----------------------------------------------------------------------------
\* The operator as loaded: ports hold a saved configuration (the source's
\* defaults hang the rope taut and straight: Top Y - Rope Length = Bottom Y),
\* the rope is empty and no frame has run.

Init ==
    /\ variant \in {"2D", "3D"}
    /\ inTop = Vec(0, 1500, 0)
    /\ inBottom = Vec(0, -900, 0)
    /\ inSegments = 2
    /\ inLength = 2400
    /\ inGravity = -98
    /\ inIter = 4
    /\ inDamping = 94
    /\ positions = <<>>
    /\ prevPositions = <<>>
    /\ isSleeping = FALSE
    /\ sleepCounter = 0
    /\ lastTop = NULL
    /\ lastBottom = NULL
    /\ outPoints = <<>>
    /\ lastFrame = [inputsMoved |-> FALSE, wasSleeping |-> FALSE, start |-> <<>>,
                    startPrev |-> <<>>,
                    stepCalled |-> FALSE, dt |-> NoStep, maxVel |-> 0,
                    elapsed |-> 0, gravity |-> inGravity, iter |-> inIter,
                    damping |-> inDamping]
    /\ runStill = 0
    /\ runStillSeed = 0
    /\ lastEvent = [op |-> "none", wasSleeping |-> FALSE, wasCounter |-> 0]
    /\ frames = 0
    /\ changes = 0

Next ==
    \/ \E e \in ElapsedValues : Update(e)
    \/ \E v \in SegmentsValues : SetSegments(v)
    \/ \E v \in LengthValues : SetLength(v)
    \/ \E v \in TopXValues : SetTopX(v)
    \/ \E v \in TopYValues : SetTopY(v)
    \/ \E v \in TopZValues : SetTopZ(v)
    \/ \E v \in BottomXValues : SetBottomX(v)
    \/ \E v \in BottomYValues : SetBottomY(v)
    \/ \E v \in BottomZValues : SetBottomZ(v)
    \/ \E v \in GravityValues : SetGravity(v)
    \/ \E v \in IterValues : SetIter(v)
    \/ \E v \in DampingValues : SetDamping(v)

Spec == Init /\ [][Next]_vars

-----------------------------------------------------------------------------
\* Vocabulary of the properties

\* The last handler that ran was an Update frame
AfterFrame == lastEvent.op = "Update"

\* This step is an Update frame
IsFrame == frames' = frames + 1

\* The handlers that call initRope
SeedOps == {"Segments", "Length", "TopX", "TopY", "TopZ"}

\* The end position the last frame read differs from the one before it by
\* at most INPUT_EPS on every axis, and so does the anchor (pre-state of a frame)
InputsHeld ==
    /\ lastTop # <<>>
    /\ Abs(inTop.x - lastTop[1].x) <= INPUT_EPS
    /\ Abs(inTop.y - lastTop[1].y) <= INPUT_EPS
    /\ Abs(inTop.z - lastTop[1].z) <= INPUT_EPS
    /\ Abs(inBottom.x - lastBottom[1].x) <= INPUT_EPS
    /\ Abs(inBottom.y - lastBottom[1].y) <= INPUT_EPS
    /\ Abs(inBottom.z - lastBottom[1].z) <= INPUT_EPS

\* The end position moved by more than INPUT_EPS on some axis (pre-state of a frame)
EndMoved ==
    /\ lastBottom # <<>>
    /\ \/ Abs(inBottom.x - lastBottom[1].x) > INPUT_EPS
       \/ Abs(inBottom.y - lastBottom[1].y) > INPUT_EPS
       \/ Abs(inBottom.z - lastBottom[1].z) > INPUT_EPS

\* pos/prev/sleeping/counter are a freshly seeded rope: n + 1 points on the
\* vertical line below `top`, spaced length / n, no velocity, awake, counter 0
FreshlySeeded(pos, prev, sleeping, counter, top, segments, length) ==
    LET n == IF segments < 1 THEN 1 ELSE segments
    IN  /\ Len(pos) = n + 1
        /\ Len(prev) = n + 1
        /\ pos[1] = top
        /\ \A i \in 1..n : /\ pos[i + 1].x = top.x
                           /\ pos[i + 1].z = top.z
                           /\ pos[i].y - pos[i + 1].y = length \div n
        /\ \A i \in 1..(n + 1) : prev[i] = pos[i]
        /\ sleeping = FALSE
        /\ counter = 0

\* out is pos flattened: x, y, z of every point in order
Published(out, pos) ==
    /\ Len(out) = 3 * Len(pos)
    /\ \A i \in 1..Len(pos) : /\ out[3 * i - 2] = pos[i].x
                              /\ out[3 * i - 1] = pos[i].y
                              /\ out[3 * i] = pos[i].z

-----------------------------------------------------------------------------
\* C1: when step() returns, point 0 equals the supplied anchor and point N the
\* supplied end position, for every segment count N >= 1 (N = 1 included).
C1_EndpointsPinned ==
    (AfterFrame /\ lastFrame.stepCalled) =>
        /\ positions[1] = lastTop[1]
        /\ positions[Len(positions)] = lastBottom[1]

\* C2: once the rope exists, positions and prevPositions have the same length,
\* max(1, segmentCount) + 1 for the segment count currently configured, after
\* every callback and every frame.
C2_ChainLength ==
    positions # <<>> =>
        /\ Len(positions) = Len(prevPositions)
        /\ Len(positions) = (IF inSegments < 1 THEN 1 ELSE inSegments) + 1

C2_Witness ==
    /\ AfterFrame
    /\ frames >= 3
    /\ inSegments = 0
    /\ Len(positions) = 2
    /\ changes >= 1

\* A frame ended with the rope falling asleep
BecameAsleep == AfterFrame /\ isSleeping /\ ~lastFrame.wasSleeping

\* The last frame was awake and not still (inputs moved, or maxVel >= VEL_EPS)
NotStillFrame ==
    AfterFrame /\ lastFrame.stepCalled
               /\ (lastFrame.inputsMoved \/ lastFrame.maxVel >= VEL_EPS)

\* C3 as stated: the rope becomes asleep at the end of a frame exactly when that
\* frame is the 6th consecutive awake still frame; a frame that is not still
\* resets the counter; the rope never falls asleep after fewer than 6.
C3_SleepsAtSixthStillFrame ==
    /\ AfterFrame => (BecameAsleep <=> runStill = SLEEP_FRAMES)
    /\ NotStillFrame => sleepCounter = 0
    /\ BecameAsleep => runStill >= SLEEP_FRAMES

\* C3 amended: the rope becomes asleep exactly at the 6th consecutive awake
\* still frame counted since the last initRope call; a frame that is not
\* still resets the counter; the rope never falls asleep after fewer than 6
\* consecutive still frames.
C3_SleepsAtSixthStillFrameSinceSeed ==
    /\ AfterFrame => (BecameAsleep <=> runStillSeed = SLEEP_FRAMES)
    /\ NotStillFrame => sleepCounter = 0
    /\ BecameAsleep => runStill >= SLEEP_FRAMES

C3_Witness ==
    /\ BecameAsleep
    /\ runStillSeed = SLEEP_FRAMES
    /\ runStill > SLEEP_FRAMES

\* C4: a frame that starts asleep with neither anchor nor end moved leaves
\* every entry of positions and prevPositions unchanged, keeps the rope
\* asleep, does not call step, and publishes the flattened positions.
C4_AsleepFrameFrozen ==
    [][(IsFrame /\ isSleeping /\ InputsHeld) =>
          /\ positions' = positions
          /\ prevPositions' = prevPositions
          /\ isSleeping'
          /\ ~lastFrame'.stepCalled
          /\ lastFrame'.dt = NoStep
          /\ Published(outPoints', positions)]_vars

C4_Witness ==
    /\ AfterFrame
    /\ lastFrame.wasSleeping
    /\ ~lastFrame.inputsMoved
    /\ ~lastFrame.stepCalled
    /\ isSleeping
    /\ Len(positions) >= 3

\* C5: while asleep, an anchor move of more than the tolerance makes the next
\* frame clear the sleep flag and run step with an effective dt of 0.
C5_AnchorWakeZeroDt ==
    [][(IsFrame /\ lastEvent.op \in {"TopX", "TopY", "TopZ"}
                /\ lastEvent.wasSleeping) =>
          /\ ~isSleeping'
          /\ lastFrame'.stepCalled
          /\ lastFrame'.dt = <<0>>]_vars

\* C6: every initRope call, from any prior state, leaves the state its
\* arguments determine: N + 1 points on the vertical line below the anchor
\* spaced totalLength / N, prevPositions equal to positions, awake, counter 0;
\* a second call with the same anchor, segment count and length changes nothing.
C6_InitRopeIdempotent ==
    [][(lastEvent'.op \in SeedOps /\ changes' = changes + 1) =>
          /\ FreshlySeeded(positions', prevPositions', isSleeping', sleepCounter',
                           inTop', inSegments', inLength')
          /\ (/\ lastEvent.op \in SeedOps
              /\ inTop' = inTop
              /\ inLength' = inLength
              /\ Max2(1, inSegments') = Max2(1, inSegments))
             => UNCHANGED ropeVars]_vars

C6_Witness ==
    /\ lastEvent.op \in SeedOps
    /\ lastEvent.wasSleeping
    /\ lastEvent.wasCounter = SLEEP_FRAMES
    /\ ~isSleeping
    /\ sleepCounter = 0
    /\ Len(positions) >= 3

\* C7: a frame that starts asleep with the end position moved by more than
\* INPUT_EPS clears the sleep flag, resets the counter, sets prevPositions
\* equal to positions before stepping and calls step with dt = 0: no free
\* point has velocity, and the rope is awake when the frame ends.
C7_EndWakeFrame ==
    [][(IsFrame /\ isSleeping /\ EndMoved) =>
          /\ ~isSleeping'
          /\ sleepCounter' = 0
          /\ lastFrame'.stepCalled
          /\ lastFrame'.start = positions
          /\ lastFrame'.startPrev = positions
          /\ lastFrame'.dt = <<0>>
          /\ lastFrame'.maxVel = 0
          /\ \A i \in 2..(Len(positions) - 1) : prevPositions'[i] = positions[i]]_vars

C7_Witness ==
    /\ AfterFrame
    /\ lastFrame.wasSleeping
    /\ lastFrame.inputsMoved
    /\ lastFrame.dt = <<0>>
    /\ lastFrame.elapsed > 0
    /\ ~isSleeping
    /\ Len(positions) >= 3

\* C8 as stated: in the 2D variant a change of the anchor input does not
\* re-seed the chain.
C8_NoReseedOnAnchor2D ==
    [][(variant = "2D" /\ positions # <<>> /\ inTop' # inTop) =>
          UNCHANGED <<positions, prevPositions>>]_vars

\* C8 amended: in both variants every change of an anchor input re-seeds the
\* chain, and in neither variant does a change of the end point re-seed it.
C8_AnchorReseedsBothVariants ==
    [][/\ inTop' # inTop =>
              FreshlySeeded(positions', prevPositions', isSleeping', sleepCounter',
                            inTop', inSegments, inLength)
       /\ inBottom' # inBottom => UNCHANGED ropeVars]_vars

C8_Witness ==
    /\ variant = "2D"
    /\ lastEvent.op \in {"TopX", "TopY"}
    /\ lastEvent.wasCounter > 0
    /\ frames >= 2
    /\ Len(positions) >= 3
    /\ positions[1] = inTop
    /\ positions[1] # lastTop[1]

\* C9: a change of gravity, damping or iteration count leaves positions,
\* prevPositions, the sleep flag and the counter unchanged, and a sleeping
\* rope stays frozen on the next frame if anchor and end did not move; a
\* change of segment count or total length replaces the chain with a freshly
\* seeded line, awake, counter 0.
C9_ParameterChanges ==
    [][/\ (inGravity' # inGravity \/ inDamping' # inDamping \/ inIter' # inIter)
              => UNCHANGED ropeVars
       /\ (/\ IsFrame
           /\ isSleeping
           /\ InputsHeld
           /\ <<inGravity, inDamping, inIter>> #
                  <<lastFrame.gravity, lastFrame.damping, lastFrame.iter>>)
              => (UNCHANGED <<positions, prevPositions>> /\ isSleeping')
       /\ (inSegments' # inSegments \/ inLength' # inLength)
              => FreshlySeeded(positions', prevPositions', isSleeping',
                               sleepCounter', inTop, inSegments', inLength')]_vars

C9_Witness ==
    /\ lastEvent.op = "Gravity"
    /\ lastEvent.wasSleeping
    /\ lastEvent.wasCounter = SLEEP_FRAMES
    /\ isSleeping
    /\ inGravity # lastFrame.gravity
    /\ Len(positions) >= 3

\* C10: the last point published by a frame differs from the end position
\* supplied on that frame by at most INPUT_EPS on each axis; stated here for
\* the frames the claim singles out: a rope of two or more segments that
\* was asleep and whose inputs moved by at most INPUT_EPS since the frame before.
C10_PublishedEndTracksInput ==
    (/\ AfterFrame
     /\ lastFrame.wasSleeping
     /\ ~lastFrame.inputsMoved
     /\ Len(positions) >= 3) =>
        LET k == Len(outPoints)
        IN  /\ Abs(outPoints[k - 2] - inBottom.x) <= INPUT_EPS
            /\ Abs(outPoints[k - 1] - inBottom.y) <= INPUT_EPS
            /\ Abs(outPoints[k] - inBottom.z) <= INPUT_EPS

====
